---- MODULE Spec2Model ----
(***************************************************************************)
(* Lumber-yard point of sale: the sale / inventory consistency flows of    *)
(* the REST backend (routes/sales.js, routes/inventory.js) over one SQLite *)
(* file.  Every request opens its own connection (getDB); a handler is a   *)
(* chain of statements whose callbacks issue the next statements.  One     *)
(* action of the model executes one statement on its connection and runs   *)
(* its callback.                                                           *)
(***************************************************************************)
EXTENDS Integers, Sequences, FiniteSets, TLC

\* ------------------------------------------------------------------ bounds
Products == {1, 2}
Conns == {1, 2}
Qtys == {1, 2}
InitStock == 2
MaxLines == 2
MaxSales == 2
MaxStatus == 3
MaxFaults == 1
MaxAdd == 1
MaxRemove == 2
MaxCreate == 1
MaxUpdate == 1
MaxLevel == 2
NewPrice == 3

\* a value that may be absent (SQL NULL, JavaScript null or undefined) is a
\* sequence of at most one number
Null == <<>>

VARIABLES
  db,       \* the committed content of the database file
  wdb,      \* the content as the connection holding the RESERVED lock sees it
  writer,   \* the connection holding the RESERVED lock, 0 when none
  inTx,     \* inTx[c]: connection c is inside BEGIN .. COMMIT/ROLLBACK
  shared,   \* shared[c]: c holds a SHARED lock (it has read inside its transaction)
  req,      \* req[c]: the request connection c serves
  loc,      \* loc[c]: the handler's local variables
  serq,     \* serq[c]: statements queued inside db.serialize, in order
  par,      \* par[c]: statements issued from callbacks, run in any order
  resp,     \* resp[c]: the HTTP status sent, 0 when none yet
  crashed,  \* a second response on one request threw in a callback
  faults,   \* storage failures injected so far
  quota,    \* quota[k]: requests of kind k still to arrive; quota.fault: storage
            \* failures that may occur
  pre,      \* pre[c]: the tables when the request of c started
  alone,    \* alone[c]: no other request has run since the request of c started
  hist      \* hist[c]: what the request observed and which of its steps failed

vars == <<db, wdb, writer, inTx, shared, req, loc, serq, par, resp, crashed,
          faults, quota, pre, alone, hist>>

dbvars == <<db, wdb, writer, inTx, shared>>

\* ------------------------------------------------------------- javascript
\* a < b with a possibly null: null converts to 0
NumberOf(a) == IF a = Null THEN 0 ELSE a[1]

JSLessStrict(a, b) == a # Null /\ a[1] < b

JSLess(a, b) == NumberOf(a) < b

\* number + value: a string operand makes + a concatenation of the decimal texts
Concat(a, d) == IF a >= 0 THEN a * 10 + d ELSE a * 10 - d

JSPlus(a, t) == IF t.k = "str" THEN [k |-> "str", v |-> Concat(a, t.v)]
                ELSE [k |-> "num", v |-> a + t.v]

\* a value bound to a DECIMAL column: numeric affinity turns a numeric text into the number
SqlNumeric(t) == t.v

Num(n) == [k |-> "num", v |-> n]
Str(n) == [k |-> "str", v |-> n]

\* the (discount, tax) pairs a request may carry; the body parsers leave both unvalidated
Extras == {<<1, Num(1)>>, <<0, Str(1)>>}

\* --------------------------------------------------------------- database
Price == [p \in Products |-> p]

\* the ids a request may name: the products, and one id no product has
ProductIds == Products \cup {Cardinality(Products) + 1}

InitDb == [products |-> [p \in Products |-> [price |-> Price[p], active |-> TRUE]],
           inv |-> [p \in Products |-> <<InitStock>>],
           sales |-> <<>>,
           items |-> <<>>,
           moves |-> <<>>]

Tables(d) == [inv |-> d.inv, sales |-> d.sales, items |-> d.items, moves |-> d.moves]

\* what connection c reads
View(c) == IF writer = c THEN wdb ELSE db

Others(c) == Conns \ {c}

\* a write needs the RESERVED lock; outside a transaction it must also commit at once,
\* which needs every other reader gone
CanWrite(c) == IF inTx[c] THEN writer \in {0, c}
               ELSE writer = 0 /\ \A o \in Others(c) : ~shared[o]

CanCommit(c) == writer = c => \A o \in Others(c) : ~shared[o]

DbRead(c) ==
  /\ shared' = [shared EXCEPT ![c] = inTx[c]]
  /\ UNCHANGED <<db, wdb, writer, inTx>>

DbWrite(c, nd) ==
  IF inTx[c]
  THEN /\ wdb' = nd
       /\ writer' = c
       /\ shared' = [shared EXCEPT ![c] = TRUE]
       /\ UNCHANGED <<db, inTx>>
  ELSE /\ db' = nd
       /\ wdb' = nd
       /\ UNCHANGED <<writer, shared, inTx>>

DbCommit(c) ==
  /\ db' = IF writer = c THEN wdb ELSE db
  /\ wdb' = IF writer = c THEN wdb ELSE wdb
  /\ writer' = IF writer = c THEN 0 ELSE writer
  /\ shared' = [shared EXCEPT ![c] = FALSE]
  /\ inTx' = [inTx EXCEPT ![c] = FALSE]

DbRollback(c) ==
  /\ wdb' = IF writer = c THEN db ELSE wdb
  /\ writer' = IF writer = c THEN 0 ELSE writer
  /\ shared' = [shared EXCEPT ![c] = FALSE]
  /\ inTx' = [inTx EXCEPT ![c] = FALSE]
  /\ UNCHANGED db

\* a statement fails: the file is locked by another connection (SQLITE_BUSY), or storage fails
WriteFails(c) ==
  \/ ~CanWrite(c) /\ UNCHANGED faults
  \/ faults < quota.fault /\ faults' = faults + 1

ReadFails == faults < quota.fault /\ faults' = faults + 1

\* the statements' effects on a database value
InsertSale(d, row) == [d EXCEPT !.sales = Append(@, row)]

InsertSaleItem(d, row) == [d EXCEPT !.items = Append(@, row)]

\* inv[p] holds the quantity of every inventory row of product p, in rowid order
UpdateQuantity(d, p, delta) ==
  [d EXCEPT !.inv[p] = [r \in DOMAIN @ |-> @[r] + delta]]

\* i.quantity of the first inventory row joined to product p, NULL when there is none
StockQuantity(d, p) ==
  IF p \in DOMAIN d.inv /\ d.inv[p] # <<>> THEN <<d.inv[p][1]>> ELSE Null

\* UPDATE inventory SET quantity = quantity + ? WHERE product_id = ?, for any id
UpdateStock(d, p, delta) == IF p \in DOMAIN d.inv THEN UpdateQuantity(d, p, delta) ELSE d

\* this.changes of that UPDATE: the inventory rows of the product
Changes(d, p) == IF p \in DOMAIN d.inv THEN Len(d.inv[p]) ELSE 0

DeactivateRemoving(d, p) ==
  IF p \in DOMAIN d.products
  THEN [d EXCEPT !.products[p].active = FALSE, !.inv[p] = <<>>]
  ELSE d

\* UPDATE products SET active = 0 WHERE id = ?
Deactivate(d, p) ==
  IF p \in DOMAIN d.products THEN [d EXCEPT !.products[p].active = FALSE] ELSE d

InsertMovementReplacing(d, row) == [d EXCEPT !.moves = <<row>>]

\* INSERT INTO inventory_movements
InsertMovement(d, row) == [d EXCEPT !.moves = Append(@, row)]

UpdateStatus(d, id, st) ==
  IF id \in 1..Len(d.sales) THEN [d EXCEPT !.sales[id].status = st] ELSE d

Movement(p, type, q, ref, reftype) ==
  [product_id |-> p, movement_type |-> type, quantity |-> q,
   reference_id |-> ref, reference_type |-> reftype]

\* --------------------------------------------------------------- requests
St(k, i) == [k |-> k, i |-> i]

\* the values a request may carry in a field that is tested against boolean false
Undefined == [k |-> "undefined", v |-> ""]
JSFalse == [k |-> "bool", v |-> "false"]
StrFalse == [k |-> "str", v |-> "false"]

NoReq == [op |-> "idle", items |-> <<>>, discount |-> 0, tax |-> Num(0),
          id |-> 0, status |-> "", product |-> 0, quantity |-> Null,
          price |-> 0, active |-> Undefined]

LocInit == [totalAmount |-> 0, processedItems |-> 0, saleItems |-> <<>>,
            insertedItems |-> 0, saleId |-> 0, items |-> <<>>, updatedItems |-> 0,
            currentInventory |-> Null, productId |-> 0]

HistInit == [lineOk |-> <<>>, found |-> <<>>, seen |-> <<>>, stepFailed |-> FALSE,
             rivals |-> {}, answered |-> <<>>, saleStatus |-> ""]

Finished(c) == req[c].op # "idle" /\ serq[c] = <<>> /\ par[c] = {}

Idle(c) == req[c].op = "idle"

Running(c) == req[c].op # "idle" /\ ~Finished(c)

\* statement s is the next one connection c may execute
Next1(c, s) ==
  /\ ~crashed
  /\ IF serq[c] # <<>> THEN s = Head(serq[c]) ELSE s \in par[c]

\* the callback of s has run: it changed the locals, issued statements, maybe answered
Done(c, s, nloc, nser, npar, code, nhist) ==
  /\ loc' = [loc EXCEPT ![c] = nloc]
  /\ serq' = [serq EXCEPT ![c] = (IF serq[c] # <<>> THEN Tail(serq[c]) ELSE <<>>) \o nser]
  /\ par' = [par EXCEPT ![c] = (IF serq[c] # <<>> THEN @ ELSE @ \ {s}) \cup npar]
  /\ hist' = [hist EXCEPT ![c] = nhist]
  /\ IF code = 0 THEN UNCHANGED <<resp, crashed>>
     ELSE IF resp[c] = 0
          THEN resp' = [resp EXCEPT ![c] = code] /\ UNCHANGED crashed
          ELSE crashed' = TRUE /\ UNCHANGED resp
  /\ UNCHANGED <<req, quota, pre, alone>>

\* the server takes a request on a fresh connection; the connections of the requests
\* that are over have been let go
CanAccept(c, k) ==
  /\ ~crashed
  /\ Idle(c)
  /\ \A o \in Others(c) : Finished(o) => inTx[o]
  /\ quota[k] > 0

\* a request r of kind k arrives; its handler issues the statements nser, npar
Accept(c, k, r, nser, npar) ==
  /\ quota' = [quota EXCEPT ![k] = @ - 1]
  /\ req' = [req EXCEPT ![c] = r]
  /\ loc' = [loc EXCEPT ![c] = LocInit]
  /\ hist' = [hist EXCEPT ![c] = HistInit]
  /\ serq' = [serq EXCEPT ![c] = nser]
  /\ par' = [par EXCEPT ![c] = npar]
  /\ resp' = [resp EXCEPT ![c] = 0]
  /\ pre' = [pre EXCEPT ![c] = Tables(db)]
  /\ alone' = [o \in Conns |-> IF o = c THEN \A x \in Others(c) : ~Running(x)
                               ELSE alone[o] /\ ~Running(o)]
  /\ UNCHANGED <<dbvars, crashed, faults>>

InitWith(q) ==
  /\ quota = q
  /\ db = InitDb
  /\ wdb = InitDb
  /\ writer = 0
  /\ inTx = [c \in Conns |-> FALSE]
  /\ shared = [c \in Conns |-> FALSE]
  /\ req = [c \in Conns |-> NoReq]
  /\ loc = [c \in Conns |-> LocInit]
  /\ serq = [c \in Conns |-> <<>>]
  /\ par = [c \in Conns |-> {}]
  /\ resp = [c \in Conns |-> 0]
  /\ crashed = FALSE
  /\ faults = 0
  /\ pre = [c \in Conns |-> Tables(InitDb)]
  /\ alone = [c \in Conns |-> TRUE]
  /\ hist = [c \in Conns |-> HistInit]

\* ------------------------------------------------- transaction statements
BeginTransactionMissing(c) == FALSE

\* after BEGIN TRANSACTION the connection is in a transaction
BeginTransaction(c) == TRUE

Begin(c) ==
  /\ Next1(c, St("begin", 0))
  /\ inTx' = [inTx EXCEPT ![c] = BeginTransaction(c)]
  /\ UNCHANGED <<db, wdb, writer, shared, faults>>
  /\ Done(c, St("begin", 0), loc[c], <<>>, {}, 0, hist[c])

Rollback(c) ==
  /\ Next1(c, St("rollback", 0))
  /\ DbRollback(c)
  /\ UNCHANGED faults
  /\ Done(c, St("rollback", 0), loc[c], <<>>, {}, 0, hist[c])

\* the request is over and its connection object is let go; a transaction it left
\* open is rolled back when the handle is finalized
Close(c) ==
  /\ ~crashed
  /\ Finished(c)
  /\ DbRollback(c)
  /\ req' = [req EXCEPT ![c] = NoReq]
  /\ loc' = [loc EXCEPT ![c] = LocInit]
  /\ hist' = [hist EXCEPT ![c] = HistInit]
  /\ resp' = [resp EXCEPT ![c] = 0]
  /\ pre' = [pre EXCEPT ![c] = Tables(InitDb)]
  /\ alone' = [alone EXCEPT ![c] = TRUE]
  /\ UNCHANGED <<serq, par, crashed, faults, quota>>

\* ------------------------------------------------------------ sale creation
\* the lines a request may carry: any quantity of product 1, one unit of the others
LineChoices == {l \in [product_id : ProductIds, quantity : Qtys] :
                  l.product_id = 1 \/ l.quantity = 1}

Lines == UNION {[1..n -> LineChoices] : n \in 1..MaxLines}

\* POST /api/sales: BEGIN and one product lookup per line, inside db.serialize
StartSale(c) ==
  /\ CanAccept(c, "sale")
  /\ \E lines \in Lines, x \in Extras :
       Accept(c, "sale",
              [NoReq EXCEPT !.op = "sale", !.items = lines, !.discount = x[1], !.tax = x[2]],
              <<St("begin", 0)>> \o [i \in 1..Len(lines) |-> St("product", i)], {})

\* the row of productQuery: the product when active, with the joined stock quantity
ProductRow(d, p) ==
  IF p \in DOMAIN d.products /\ d.products[p].active
  THEN <<[price |-> d.products[p].price, stock_quantity |-> StockQuantity(d, p)]>>
  ELSE <<>>

ItemTotalFlat(item, product) == product.price

\* const itemTotal = item.quantity * product.price
ItemTotal(item, product) == item.quantity * product.price

StockShortOff(product, item) == FALSE

StockShort(product, item) == JSLess(product.stock_quantity, item.quantity)

AllProcessedEarly(processedItems, items) == processedItems >= 1

\* processedItems === items.length
AllProcessed(processedItems, items) == processedItems = Len(items)

\* the line is acceptable on the database as it stands
LineOk(d, item) ==
  /\ item.product_id \in DOMAIN d.products
  /\ d.products[item.product_id].active
  /\ d.inv[item.product_id] # <<>>
  /\ d.inv[item.product_id][1] >= item.quantity

\* callback of the product lookup of line i
SaleValidate(c, i) ==
  LET s == St("product", i)
      item == req[c].items[i]
      found == ProductRow(View(c), item.product_id)
      h == [hist[c] EXCEPT !.lineOk = Append(@, LineOk(View(c), item)),
                           !.found = Append(@, found # <<>>),
                           !.seen = Append(@, StockQuantity(View(c), item.product_id)),
                           !.rivals = @ \cup {o \in Others(c) :
                                         /\ req[o].op \in {"sale", "remove"}
                                         /\ resp[o] = 0}]
      \* the lookup failed: nothing was read for the line
      hf == [hist[c] EXCEPT !.lineOk = Append(@, FALSE), !.found = Append(@, FALSE),
                            !.seen = Append(@, Null), !.answered = Append(@, i)]
      \* the line is rejected
      hr == [h EXCEPT !.answered = Append(@, i)]
  IN
  /\ Next1(c, s)
  /\ \/ /\ ReadFails
        /\ UNCHANGED dbvars
        /\ Done(c, s, loc[c], <<>>, {St("rollback", 0)}, 500, hf)
     \/ /\ UNCHANGED faults
        /\ DbRead(c)
        /\ IF found = <<>>
           THEN Done(c, s, loc[c], <<>>, {St("rollback", 0)}, 400, hr)
           ELSE IF StockShort(found[1], item)
           THEN Done(c, s, loc[c], <<>>, {St("rollback", 0)}, 400, hr)
           ELSE LET itemTotal == ItemTotal(item, found[1])
                    nloc == [loc[c] EXCEPT
                               !.totalAmount = @ + itemTotal,
                               !.saleItems = Append(@, [product_id |-> item.product_id,
                                                        quantity |-> item.quantity,
                                                        unit_price |-> found[1].price,
                                                        total_price |-> itemTotal]),
                               !.processedItems = @ + 1]
                IN Done(c, s, nloc, <<>>,
                        IF AllProcessed(nloc.processedItems, req[c].items)
                        THEN {St("insertSale", 0)} ELSE {},
                        0, h)

FinalTotal(c) == JSPlus(loc[c].totalAmount - req[c].discount, req[c].tax)

\* createSale: INSERT INTO sales, then one write chain per line, side by side
SaleInsertHeader(c) ==
  LET s == St("insertSale", 0)
      row == [total_amount |-> SqlNumeric(FinalTotal(c)), discount |-> req[c].discount,
              tax |-> SqlNumeric(req[c].tax), status |-> "concluida"]
  IN
  /\ Next1(c, s)
  /\ \/ /\ WriteFails(c)
        /\ UNCHANGED dbvars
        /\ Done(c, s, loc[c], <<>>, {St("rollback", 0)}, 500,
                [hist[c] EXCEPT !.stepFailed = TRUE])
     \/ /\ CanWrite(c)
        /\ UNCHANGED faults
        /\ DbWrite(c, InsertSale(View(c), row))
        /\ Done(c, s, [loc[c] EXCEPT !.saleId = Len(View(c).sales) + 1], <<>>,
                {St("insertItem", k) : k \in 1..Len(loc[c].saleItems)}, 0, hist[c])

SaleInsertItem(c, k) ==
  LET s == St("insertItem", k)
      it == loc[c].saleItems[k]
      row == [sale_id |-> loc[c].saleId, product_id |-> it.product_id,
              quantity |-> it.quantity, unit_price |-> it.unit_price,
              total_price |-> it.total_price]
  IN
  /\ Next1(c, s)
  /\ \/ /\ WriteFails(c)
        /\ UNCHANGED dbvars
        /\ Done(c, s, loc[c], <<>>, {St("rollback", 0)}, 500,
                [hist[c] EXCEPT !.stepFailed = TRUE])
     \/ /\ CanWrite(c)
        /\ UNCHANGED faults
        /\ DbWrite(c, InsertSaleItem(View(c), row))
        /\ Done(c, s, loc[c], <<>>, {St("updateInventory", k)}, 0, hist[c])

SaleUpdateInventory(c, k) ==
  LET s == St("updateInventory", k)
      it == loc[c].saleItems[k]
  IN
  /\ Next1(c, s)
  /\ \/ /\ WriteFails(c)
        /\ UNCHANGED dbvars
        /\ Done(c, s, loc[c], <<>>, {St("rollback", 0)}, 500,
                [hist[c] EXCEPT !.stepFailed = TRUE])
     \/ /\ CanWrite(c)
        /\ UNCHANGED faults
        /\ DbWrite(c, UpdateQuantity(View(c), it.product_id, 0 - it.quantity))
        /\ Done(c, s, loc[c], <<>>, {St("insertMovement", k)}, 0, hist[c])

\* a failed movement insert is only logged; the chain goes on either way
SaleInsertMovement(c, k) ==
  LET s == St("insertMovement", k)
      it == loc[c].saleItems[k]
      nloc == [loc[c] EXCEPT !.insertedItems = @ + 1]
      npar == IF nloc.insertedItems = Len(loc[c].saleItems) THEN {St("commit", 0)} ELSE {}
  IN
  /\ Next1(c, s)
  /\ \/ /\ WriteFails(c)
        /\ UNCHANGED dbvars
     \/ /\ CanWrite(c)
        /\ UNCHANGED faults
        /\ DbWrite(c, InsertMovement(View(c),
                        Movement(it.product_id, "saida", it.quantity, loc[c].saleId, "sale")))
  /\ Done(c, s, nloc, <<>>, npar, 0, hist[c])

\* COMMIT and the success response; a failed COMMIT answers 500 and leaves the
\* transaction open
Commit(c) ==
  LET s == St("commit", 0) IN
  /\ Next1(c, s)
  /\ \/ /\ \/ ~(inTx[c] /\ CanCommit(c)) /\ UNCHANGED faults
           \/ faults < quota.fault /\ faults' = faults + 1
        /\ UNCHANGED dbvars
        /\ Done(c, s, loc[c], <<>>, {}, 500, hist[c])
     \/ /\ inTx[c] /\ CanCommit(c)
        /\ UNCHANGED faults
        /\ DbCommit(c)
        /\ Done(c, s, loc[c], <<>>, {}, IF req[c].op = "sale" THEN 201 ELSE 200, hist[c])

\* ------------------------------------------------------ sale status update
SaleIds == 1..MaxSales

Statuses == {"pendente", "concluida", "cancelada"}

\* the (id, status) pairs a request may carry: any status for a sale that exists, and
\* one request for the first id that does not
StatusChoices(d) == {x \in SaleIds \X Statuses :
                       \/ x[1] \in DOMAIN d.sales
                       \/ x[1] = Len(d.sales) + 1 /\ x[2] = "cancelada"}

\* PUT /api/sales/:id/status: the sale is read outside any transaction
StartStatus(c) ==
  /\ CanAccept(c, "status")
  /\ \E x \in StatusChoices(db) :
       Accept(c, "status", [NoReq EXCEPT !.op = "status", !.id = x[1], !.status = x[2]],
              <<>>, {St("getSale", 0)})

SaleRow(d, id) == IF id \in DOMAIN d.sales THEN <<d.sales[id]>> ELSE <<>>

CancelsCompletedAlways(sale, status) == status = "cancelada"

\* sale.status === 'concluida' && status === 'cancelada'
CancelsCompleted(sale, status) == sale.status = "concluida" /\ status = "cancelada"

\* callback of the sale lookup: the cancellation of a completed sale restores the
\* inventory inside a transaction, any other update is a plain UPDATE
StatusGetSale(c) ==
  LET s == St("getSale", 0)
      sale == SaleRow(View(c), req[c].id)
  IN
  /\ Next1(c, s)
  /\ \/ /\ ReadFails
        /\ UNCHANGED dbvars
        /\ Done(c, s, loc[c], <<>>, {}, 500, hist[c])
     \/ /\ UNCHANGED faults
        /\ DbRead(c)
        /\ IF sale = <<>>
           THEN Done(c, s, loc[c], <<>>, {}, 404, hist[c])
           ELSE LET h == [hist[c] EXCEPT
                            !.saleStatus = sale[1].status,
                            !.rivals = {o \in Others(c) :
                                          /\ req[o].op = "status" /\ resp[o] = 0
                                          /\ req[o].id = req[c].id}]
                IN IF CancelsCompleted(sale[1], req[c].status)
                   THEN Done(c, s, loc[c], <<St("begin", 0), St("getItems", 0)>>, {}, 0, h)
                   ELSE Done(c, s, loc[c], <<>>, {St("setStatus", 0)}, 0, h)

StatusSimpleUpdate(c) ==
  LET s == St("setStatus", 0) IN
  /\ Next1(c, s)
  /\ \/ /\ WriteFails(c)
        /\ UNCHANGED dbvars
        /\ Done(c, s, loc[c], <<>>, {}, 500, hist[c])
     \/ /\ CanWrite(c)
        /\ UNCHANGED faults
        /\ DbWrite(c, UpdateStatus(View(c), req[c].id, req[c].status))
        /\ Done(c, s, loc[c], <<>>, {}, 200, hist[c])

SelectSeq2(rows, id) == SelectSeq(rows, LAMBDA r : r.sale_id = id)

\* SELECT * FROM sale_items WHERE sale_id = ?; one restore chain per item
CancelGetItems(c) ==
  LET s == St("getItems", 0)
      items == SelectSeq2(View(c).items, req[c].id)
  IN
  /\ Next1(c, s)
  /\ \/ /\ ReadFails
        /\ UNCHANGED dbvars
        /\ Done(c, s, loc[c], <<>>, {St("rollback", 0)}, 500, hist[c])
     \/ /\ UNCHANGED faults
        /\ DbRead(c)
        /\ Done(c, s, [loc[c] EXCEPT !.items = items], <<>>,
                {St("restore", k) : k \in DOMAIN items}, 0, hist[c])

CancelRestore(c, k) ==
  LET s == St("restore", k)
      item == loc[c].items[k]
  IN
  /\ Next1(c, s)
  /\ \/ /\ WriteFails(c)
        /\ UNCHANGED dbvars
        /\ Done(c, s, loc[c], <<>>, {St("rollback", 0)}, 500,
                [hist[c] EXCEPT !.stepFailed = TRUE])
     \/ /\ CanWrite(c)
        /\ UNCHANGED faults
        /\ DbWrite(c, UpdateQuantity(View(c), item.product_id, item.quantity))
        /\ Done(c, s, loc[c], <<>>, {St("restoreMovement", k)}, 0, hist[c])

\* a failed movement insert is only logged
CancelInsertMovement(c, k) ==
  LET s == St("restoreMovement", k)
      item == loc[c].items[k]
      nloc == [loc[c] EXCEPT !.updatedItems = @ + 1]
      npar == IF nloc.updatedItems = Len(loc[c].items) THEN {St("updateSale", 0)} ELSE {}
  IN
  /\ Next1(c, s)
  /\ \/ /\ WriteFails(c)
        /\ UNCHANGED dbvars
     \/ /\ CanWrite(c)
        /\ UNCHANGED faults
        /\ DbWrite(c, InsertMovement(View(c),
                        Movement(item.product_id, "entrada", item.quantity, req[c].id,
                                 "sale_cancellation")))
  /\ Done(c, s, nloc, <<>>, npar, 0, hist[c])

\* updateSaleStatus, inside the transaction
CancelUpdateStatus(c) ==
  LET s == St("updateSale", 0) IN
  /\ Next1(c, s)
  /\ \/ /\ WriteFails(c)
        /\ UNCHANGED dbvars
        /\ Done(c, s, loc[c], <<>>, {St("rollback", 0)}, 500,
                [hist[c] EXCEPT !.stepFailed = TRUE])
     \/ /\ CanWrite(c)
        /\ UNCHANGED faults
        /\ DbWrite(c, UpdateStatus(View(c), req[c].id, req[c].status))
        /\ Done(c, s, loc[c], <<>>, {St("commit", 0)}, 0, hist[c])

\* ------------------------------------------------- manual stock adjustment
\* the (product, quantity) pairs an adjustment may carry
Adjustments == ProductIds \X Qtys

\* POST /api/inventory/product/:id/add: BEGIN and the UPDATE, inside db.serialize
StartAdd(c) ==
  /\ CanAccept(c, "add")
  /\ \E x \in Adjustments :
       Accept(c, "add", [NoReq EXCEPT !.op = "add", !.product = x[1], !.quantity = <<x[2]>>],
              <<St("begin", 0), St("addUpdate", 0)>>, {})

\* callback of the UPDATE: this.changes === 0 answers 404
AddUpdate(c) ==
  LET s == St("addUpdate", 0) IN
  /\ Next1(c, s)
  /\ \/ /\ WriteFails(c)
        /\ UNCHANGED dbvars
        /\ Done(c, s, loc[c], <<>>, {St("rollback", 0)}, 500,
                [hist[c] EXCEPT !.stepFailed = TRUE])
     \/ /\ CanWrite(c)
        /\ UNCHANGED faults
        /\ DbWrite(c, UpdateStock(View(c), req[c].product, req[c].quantity[1]))
        /\ IF Changes(View(c), req[c].product) = 0
           THEN Done(c, s, loc[c], <<>>, {St("rollback", 0)}, 404, hist[c])
           ELSE Done(c, s, loc[c], <<>>, {St("addMovement", 0)}, 0, hist[c])

\* a failed movement insert rolls the adjustment back
AddInsertMovement(c) ==
  LET s == St("addMovement", 0) IN
  /\ Next1(c, s)
  /\ \/ /\ WriteFails(c)
        /\ UNCHANGED dbvars
        /\ Done(c, s, loc[c], <<>>, {St("rollback", 0)}, 500,
                [hist[c] EXCEPT !.stepFailed = TRUE])
     \/ /\ CanWrite(c)
        /\ UNCHANGED faults
        /\ DbWrite(c, InsertMovement(View(c),
                        Movement(req[c].product, "entrada", req[c].quantity[1], 0,
                                 "adjustment")))
        /\ Done(c, s, loc[c], <<>>, {St("commit", 0)}, 0, hist[c])

\* POST /api/inventory/product/:id/remove: the stock is read outside any transaction
StartRemove(c) ==
  /\ CanAccept(c, "remove")
  /\ \E x \in Adjustments :
       Accept(c, "remove",
              [NoReq EXCEPT !.op = "remove", !.product = x[1], !.quantity = <<x[2]>>],
              <<>>, {St("checkStock", 0)})

RemoveShortOff(inventory, quantity) == FALSE

\* inventory.quantity < quantity
RemoveShort(inventory, quantity) == inventory[1] < quantity

\* callback of the stock lookup
RemoveCheck(c) ==
  LET s == St("checkStock", 0)
      inventory == StockQuantity(View(c), req[c].product)
      h == [hist[c] EXCEPT !.seen = Append(@, inventory),
                           !.rivals = {o \in Others(c) :
                                         /\ req[o].op \in {"sale", "remove"}
                                         /\ resp[o] = 0}]
  IN
  /\ Next1(c, s)
  /\ \/ /\ ReadFails
        /\ UNCHANGED dbvars
        /\ Done(c, s, loc[c], <<>>, {}, 500, hist[c])
     \/ /\ UNCHANGED faults
        /\ DbRead(c)
        /\ IF inventory = Null
           THEN Done(c, s, loc[c], <<>>, {}, 404, h)
           ELSE IF RemoveShort(inventory, req[c].quantity[1])
           THEN Done(c, s, loc[c], <<>>, {}, 400, h)
           ELSE Done(c, s, loc[c], <<St("begin", 0), St("removeUpdate", 0)>>, {}, 0, h)

RemoveUpdate(c) ==
  LET s == St("removeUpdate", 0) IN
  /\ Next1(c, s)
  /\ \/ /\ WriteFails(c)
        /\ UNCHANGED dbvars
        /\ Done(c, s, loc[c], <<>>, {St("rollback", 0)}, 500,
                [hist[c] EXCEPT !.stepFailed = TRUE])
     \/ /\ CanWrite(c)
        /\ UNCHANGED faults
        /\ DbWrite(c, UpdateStock(View(c), req[c].product, 0 - req[c].quantity[1]))
        /\ Done(c, s, loc[c], <<>>, {St("removeMovement", 0)}, 0, hist[c])

\* a failed movement insert rolls the adjustment back
RemoveInsertMovement(c) ==
  LET s == St("removeMovement", 0) IN
  /\ Next1(c, s)
  /\ \/ /\ WriteFails(c)
        /\ UNCHANGED dbvars
        /\ Done(c, s, loc[c], <<>>, {St("rollback", 0)}, 500,
                [hist[c] EXCEPT !.stepFailed = TRUE])
     \/ /\ CanWrite(c)
        /\ UNCHANGED faults
        /\ DbWrite(c, InsertMovement(View(c),
                        Movement(req[c].product, "saida", req[c].quantity[1], 0,
                                 "adjustment")))
        /\ Done(c, s, loc[c], <<>>, {St("commit", 0)}, 0, hist[c])

\* ---------------------------------------------------------- product delete
\* DELETE /api/products/:id: one UPDATE outside any transaction
StartDelete(c) ==
  /\ CanAccept(c, "delete")
  /\ \E p \in ProductIds :
       Accept(c, "delete", [NoReq EXCEPT !.op = "delete", !.product = p],
              <<>>, {St("deactivate", 0)})

\* this.changes === 0 answers 404
DeleteProduct(c) ==
  LET s == St("deactivate", 0) IN
  /\ Next1(c, s)
  /\ \/ /\ WriteFails(c)
        /\ UNCHANGED dbvars
        /\ Done(c, s, loc[c], <<>>, {}, 500, hist[c])
     \/ /\ CanWrite(c)
        /\ UNCHANGED faults
        /\ DbWrite(c, Deactivate(View(c), req[c].product))
        /\ Done(c, s, loc[c], <<>>, {},
                IF req[c].product \in DOMAIN View(c).products THEN 200 ELSE 404, hist[c])

\* ---------------------------------------------------------- product create
\* INSERT INTO products: the new row gets the next id and is active by default
InsertProduct(d, price) ==
  LET id == Cardinality(DOMAIN d.products) + 1
  IN [d EXCEPT !.products = @ @@ (id :> [price |-> price, active |-> TRUE]),
               !.inv = @ @@ (id :> <<>>)]

\* INSERT INTO inventory (product_id, quantity, ...): one more row for the product
InsertInventory(d, p, q) ==
  IF p \in DOMAIN d.inv THEN [d EXCEPT !.inv[p] = Append(@, q)]
  ELSE [d EXCEPT !.inv = @ @@ (p :> <<q>>)]

\* POST /api/products without a barcode: insertProduct at once
StartCreate(c) ==
  /\ CanAccept(c, "create")
  /\ Accept(c, "create", [NoReq EXCEPT !.op = "create", !.price = NewPrice],
            <<>>, {St("insertProduct", 0)})

\* callback of the product INSERT: this.lastID, then the initial inventory entry
CreateInsertProduct(c) ==
  LET s == St("insertProduct", 0) IN
  /\ Next1(c, s)
  /\ \/ /\ WriteFails(c)
        /\ UNCHANGED dbvars
        /\ Done(c, s, loc[c], <<>>, {}, 500, hist[c])
     \/ /\ CanWrite(c)
        /\ UNCHANGED faults
        /\ DbWrite(c, InsertProduct(View(c), req[c].price))
        /\ Done(c, s, [loc[c] EXCEPT !.productId = Cardinality(DOMAIN View(c).products) + 1],
                <<>>, {St("insertInventory", 0)}, 0, hist[c])

\* a failed inventory insert is only logged; the created product is read back either way
CreateInsertInventory(c) ==
  LET s == St("insertInventory", 0) IN
  /\ Next1(c, s)
  /\ \/ /\ WriteFails(c)
        /\ UNCHANGED dbvars
        /\ Done(c, s, loc[c], <<>>, {St("getCreated", 0)}, 0,
                [hist[c] EXCEPT !.stepFailed = TRUE])
     \/ /\ CanWrite(c)
        /\ UNCHANGED faults
        /\ DbWrite(c, InsertInventory(View(c), loc[c].productId, 0))
        /\ Done(c, s, loc[c], <<>>, {St("getCreated", 0)}, 0, hist[c])

CreateGetProduct(c) ==
  LET s == St("getCreated", 0) IN
  /\ Next1(c, s)
  /\ \/ /\ ReadFails
        /\ UNCHANGED dbvars
        /\ Done(c, s, loc[c], <<>>, {}, 500, hist[c])
     \/ /\ UNCHANGED faults
        /\ DbRead(c)
        /\ Done(c, s, loc[c], <<>>, {}, 201, hist[c])

\* ---------------------------------------------------------- product update
\* the values of the active field: left out, boolean false, the text "false"
ActiveValues == {Undefined, JSFalse, StrFalse}

ActiveFlagLoose(active) == active \notin {JSFalse, StrFalse}

\* active !== false ? 1 : 0
ActiveFlag(active) == active # JSFalse

UpdateProductRepricing(d, p, price, active) ==
  [d EXCEPT !.products[p] = [price |-> price, active |-> active],
            !.items = [i \in DOMAIN d.items |->
                         IF d.items[i].product_id = p
                         THEN [d.items[i] EXCEPT !.unit_price = price,
                                                 !.total_price = d.items[i].quantity * price]
                         ELSE d.items[i]]]

\* UPDATE products SET ..., price = ?, ..., active = ? WHERE id = ?
UpdateProductRow(d, p, price, active) ==
  IF p \in DOMAIN d.products
  THEN [d EXCEPT !.products[p] = [price |-> price, active |-> active]]
  ELSE d

\* PUT /api/products/:id without a barcode: the product is looked up first
StartUpdate(c) ==
  /\ CanAccept(c, "update")
  /\ \E p \in ProductIds, a \in ActiveValues :
       Accept(c, "update",
              [NoReq EXCEPT !.op = "update", !.product = p, !.price = NewPrice, !.active = a],
              <<>>, {St("getProduct", 0)})

\* callback of the product lookup: 404 when there is no such product
UpdateGetProduct(c) ==
  LET s == St("getProduct", 0) IN
  /\ Next1(c, s)
  /\ \/ /\ ReadFails
        /\ UNCHANGED dbvars
        /\ Done(c, s, loc[c], <<>>, {}, 500, hist[c])
     \/ /\ UNCHANGED faults
        /\ DbRead(c)
        /\ IF req[c].product \notin DOMAIN View(c).products
           THEN Done(c, s, loc[c], <<>>, {}, 404, hist[c])
           ELSE Done(c, s, loc[c], <<>>, {St("updateProduct", 0)}, 0,
                     [hist[c] EXCEPT !.found = <<View(c).products[req[c].product].active>>])

\* updateProduct: the UPDATE, then the product is read back
UpdateProduct(c) ==
  LET s == St("updateProduct", 0) IN
  /\ Next1(c, s)
  /\ \/ /\ WriteFails(c)
        /\ UNCHANGED dbvars
        /\ Done(c, s, loc[c], <<>>, {}, 500, [hist[c] EXCEPT !.stepFailed = TRUE])
     \/ /\ CanWrite(c)
        /\ UNCHANGED faults
        /\ DbWrite(c, UpdateProductRow(View(c), req[c].product, req[c].price,
                                       ActiveFlag(req[c].active)))
        /\ Done(c, s, loc[c], <<>>, {St("getUpdated", 0)}, 0, hist[c])

UpdateGetUpdated(c) ==
  LET s == St("getUpdated", 0) IN
  /\ Next1(c, s)
  /\ \/ /\ ReadFails
        /\ UNCHANGED dbvars
        /\ Done(c, s, loc[c], <<>>, {}, 500, hist[c])
     \/ /\ UNCHANGED faults
        /\ DbRead(c)
        /\ Done(c, s, loc[c], <<>>, {}, 200, hist[c])

\* ---------------------------------------------------- inventory level update
\* the quantity field of a level update: left out, or a number
LevelQuantities == {Null, <<1>>}

\* UPDATE inventory SET quantity = ?, ... WHERE product_id = ?
SetQuantity(d, p, q) ==
  IF p \in DOMAIN d.inv THEN [d EXCEPT !.inv[p] = [r \in DOMAIN @ |-> q]] ELSE d

\* PUT /api/inventory/product/:id: the product is looked up first, outside any transaction
StartLevel(c) ==
  /\ CanAccept(c, "level")
  /\ \E p \in ProductIds, q \in LevelQuantities :
       Accept(c, "level", [NoReq EXCEPT !.op = "level", !.product = p, !.quantity = q],
              <<>>, {St("levelProduct", 0)})

\* SELECT id FROM products WHERE id = ? AND active = 1
LevelGetProduct(c) ==
  LET s == St("levelProduct", 0) IN
  /\ Next1(c, s)
  /\ \/ /\ ReadFails
        /\ UNCHANGED dbvars
        /\ Done(c, s, loc[c], <<>>, {}, 500, hist[c])
     \/ /\ UNCHANGED faults
        /\ DbRead(c)
        /\ IF ProductRow(View(c), req[c].product) = <<>>
           THEN Done(c, s, loc[c], <<>>, {}, 404, hist[c])
           ELSE Done(c, s, loc[c], <<>>, {St("levelInventory", 0)}, 0, hist[c])

\* callback of the inventory lookup: no record is an INSERT, a record is an UPDATE
LevelGetInventory(c) ==
  LET s == St("levelInventory", 0)
      currentInventory == StockQuantity(View(c), req[c].product)
      h == [hist[c] EXCEPT !.seen = Append(@, currentInventory)]
  IN
  /\ Next1(c, s)
  /\ \/ /\ ReadFails
        /\ UNCHANGED dbvars
        /\ Done(c, s, loc[c], <<>>, {}, 500, hist[c])
     \/ /\ UNCHANGED faults
        /\ DbRead(c)
        /\ IF currentInventory = Null
           THEN Done(c, s, loc[c], <<>>, {St("levelInsert", 0)}, 0, h)
           ELSE Done(c, s, [loc[c] EXCEPT !.currentInventory = currentInventory], <<>>,
                     {St("levelUpdate", 0)}, 0, h)

\* the inventory entry is created with quantity || 0
LevelInsert(c) ==
  LET s == St("levelInsert", 0) IN
  /\ Next1(c, s)
  /\ \/ /\ WriteFails(c)
        /\ UNCHANGED dbvars
        /\ Done(c, s, loc[c], <<>>, {}, 500, [hist[c] EXCEPT !.stepFailed = TRUE])
     \/ /\ CanWrite(c)
        /\ UNCHANGED faults
        /\ DbWrite(c, InsertInventory(View(c), req[c].product, NumberOf(req[c].quantity)))
        /\ Done(c, s, loc[c], <<>>, {}, 200, hist[c])

\* quantity !== undefined ? quantity : currentInventory.quantity
NewQuantity(d, p, quantity, currentInventory) ==
  IF quantity # Null THEN quantity[1] ELSE currentInventory[1]

\* the UPDATE with the values read before; a changed quantity is logged as a movement
\* after the response
LevelUpdate(c) ==
  LET s == St("levelUpdate", 0)
      cur == loc[c].currentInventory
      q == req[c].quantity
      newQuantity == NewQuantity(View(c), req[c].product, q, cur)
  IN
  /\ Next1(c, s)
  /\ \/ /\ WriteFails(c)
        /\ UNCHANGED dbvars
        /\ Done(c, s, loc[c], <<>>, {}, 500, [hist[c] EXCEPT !.stepFailed = TRUE])
     \/ /\ CanWrite(c)
        /\ UNCHANGED faults
        /\ DbWrite(c, SetQuantity(View(c), req[c].product, newQuantity))
        /\ Done(c, s, loc[c], <<>>,
                IF q # Null /\ q[1] # cur[1] THEN {St("levelMovement", 0)} ELSE {},
                200, hist[c])

\* a failed movement insert is only logged
LevelInsertMovement(c) ==
  LET s == St("levelMovement", 0)
      cur == loc[c].currentInventory[1]
      q == req[c].quantity[1]
  IN
  /\ Next1(c, s)
  /\ \/ /\ WriteFails(c)
        /\ UNCHANGED dbvars
     \/ /\ CanWrite(c)
        /\ UNCHANGED faults
        /\ DbWrite(c, InsertMovement(View(c),
                        Movement(req[c].product, IF q > cur THEN "entrada" ELSE "saida",
                                 IF q > cur THEN q - cur ELSE cur - q, 0, "adjustment")))
  /\ Done(c, s, loc[c], <<>>, {}, 0, hist[c])

\* ---------------------------------------------------------- specifications
\* the lines of a request, and the rows sale_items may hold under one sale id
LineIdx == 1..MaxLines

ItemIdx == 1..(MaxLines * MaxSales)

Quota(sale, status, delete, fault) ==
  [sale |-> sale, status |-> status, delete |-> delete, fault |-> fault,
   add |-> 0, remove |-> 0, create |-> 0, update |-> 0, level |-> 0]

StockQuota(sale, add, remove, fault) ==
  [sale |-> sale, status |-> 0, delete |-> 0, fault |-> fault,
   add |-> add, remove |-> remove, create |-> 0, update |-> 0, level |-> 0]

CatalogQuota(sale, delete, create, update, level, fault) ==
  [sale |-> sale, status |-> 0, delete |-> delete, fault |-> fault,
   add |-> 0, remove |-> 0, create |-> create, update |-> update, level |-> level]

TxnStep(c) ==
  \/ Begin(c)
  \/ Rollback(c)
  \/ Commit(c)
  \/ Close(c)

SaleStep(c) ==
  \/ StartSale(c)
  \/ SaleInsertHeader(c)
  \/ \E i \in LineIdx :
       \/ SaleValidate(c, i)
       \/ SaleInsertItem(c, i)
       \/ SaleUpdateInventory(c, i)
       \/ SaleInsertMovement(c, i)

DeleteStep(c) ==
  \/ StartDelete(c)
  \/ DeleteProduct(c)

StatusStep(c) ==
  \/ StartStatus(c)
  \/ StatusGetSale(c)
  \/ StatusSimpleUpdate(c)
  \/ CancelGetItems(c)
  \/ CancelUpdateStatus(c)
  \/ \E k \in ItemIdx :
       \/ CancelRestore(c, k)
       \/ CancelInsertMovement(c, k)

\* sale creations: MaxSales of them on a sound disk, or one fewer with storage
\* failures, or one fewer with a product delete
InitSales ==
  \E q \in {Quota(MaxSales, 0, 0, 0), Quota(MaxSales - 1, 0, 0, MaxFaults),
            Quota(MaxSales - 1, 0, 1, 0)} : InitWith(q)

NextSales == \E c \in Conns : TxnStep(c) \/ SaleStep(c) \/ DeleteStep(c)

SpecSales == InitSales /\ [][NextSales]_vars

\* one sale and the updates of its status: MaxStatus of them on a sound disk, or one
\* with storage failures
InitCancel ==
  \E q \in {Quota(1, MaxStatus, 0, 0), Quota(1, 1, 0, MaxFaults)} : InitWith(q)

NextCancel == \E c \in Conns : TxnStep(c) \/ SaleStep(c) \/ StatusStep(c)

SpecCancel == InitCancel /\ [][NextCancel]_vars

\* the same requests arriving one at a time: each is over before the next arrives
NextCancelSeq == TxnStep(1) \/ SaleStep(1) \/ StatusStep(1)

SpecCancelSeq == InitCancel /\ [][NextCancelSeq]_vars

\* the same on a sound disk: no statement fails for want of storage
InitCancelSound == InitWith(Quota(1, MaxStatus, 0, 0))

SpecCancelSound == InitCancelSound /\ [][NextCancelSeq]_vars

StockStep(c) ==
  \/ StartAdd(c)
  \/ AddUpdate(c)
  \/ AddInsertMovement(c)
  \/ StartRemove(c)
  \/ RemoveCheck(c)
  \/ RemoveUpdate(c)
  \/ RemoveInsertMovement(c)

\* manual adjustments: additions and removals on a sound disk, or fewer of them with
\* storage failures, or a removal beside a sale, or a sale and an update of its status
InitAdjust ==
  \E q \in {StockQuota(0, MaxAdd, MaxRemove, 0), StockQuota(0, MaxAdd, MaxRemove - 1, MaxFaults),
            StockQuota(1, 0, MaxRemove - 1, 0), Quota(1, 1, 0, 0)} : InitWith(q)

NextStock == \E c \in Conns : TxnStep(c) \/ StockStep(c) \/ SaleStep(c) \/ StatusStep(c)

SpecStock == InitAdjust /\ [][NextStock]_vars

CatalogStep(c) ==
  \/ StartCreate(c)
  \/ CreateInsertProduct(c)
  \/ CreateInsertInventory(c)
  \/ CreateGetProduct(c)
  \/ StartUpdate(c)
  \/ UpdateGetProduct(c)
  \/ UpdateProduct(c)
  \/ UpdateGetUpdated(c)
  \/ StartLevel(c)
  \/ LevelGetProduct(c)
  \/ LevelGetInventory(c)
  \/ LevelInsert(c)
  \/ LevelUpdate(c)
  \/ LevelInsertMovement(c)

\* the catalogue beside the sales: a sale with a product update and a delete; a
\* product creation with level updates; a product creation and a sale with storage
\* failures; a level update beside a sale
InitCatalog ==
  \E q \in {CatalogQuota(1, 1, 0, MaxUpdate, 0, 0),
            CatalogQuota(0, 0, MaxCreate, 0, MaxLevel, 0),
            CatalogQuota(1, 0, MaxCreate, 0, 0, MaxFaults),
            CatalogQuota(1, 0, 0, 0, MaxLevel - 1, 0)} : InitWith(q)

NextCatalog ==
  \E c \in Conns : TxnStep(c) \/ SaleStep(c) \/ DeleteStep(c) \/ CatalogStep(c)

SpecCatalog == InitCatalog /\ [][NextCatalog]_vars

\* ------------------------------------------------------------------ claims
RECURSIVE SumQuantity(_, _)
SumQuantity(rows, p) ==
  IF rows = <<>> THEN 0
  ELSE (IF Head(rows).product_id = p THEN Head(rows).quantity ELSE 0)
       + SumQuantity(Tail(rows), p)

RECURSIVE SumMoves(_, _, _)
SumMoves(rows, p, type) ==
  IF rows = <<>> THEN 0
  ELSE (IF Head(rows).product_id = p /\ Head(rows).movement_type = type
        THEN Head(rows).quantity ELSE 0)
       + SumMoves(Tail(rows), p, type)

RECURSIVE SumTotalPrice(_, _)
SumTotalPrice(rows, id) ==
  IF rows = <<>> THEN 0
  ELSE (IF Head(rows).sale_id = id THEN Head(rows).total_price ELSE 0)
       + SumTotalPrice(Tail(rows), id)

Count(rows, x) == Cardinality({i \in DOMAIN rows : rows[i] = x})

\* the rows appended to a table by a step
Added(old, new) == SubSeq(new, Len(old) + 1, Len(new))

Extends(old, new) == Len(new) >= Len(old) /\ SubSeq(new, 1, Len(old)) = old

SaleSucceeds(c) == req[c].op = "sale" /\ resp[c] = 0 /\ resp'[c] = 201

\* C11: every persisted line item has total_price = quantity x unit_price, with
\* unit_price the price of its product (prices do not change in SpecSales)
C11_ItemTotalPrice ==
  \A i \in DOMAIN db.items :
    /\ db.items[i].total_price = db.items[i].quantity * db.items[i].unit_price
    /\ db.items[i].unit_price = db.products[db.items[i].product_id].price

C11_Witness ==
  \E i \in DOMAIN db.items : db.items[i].quantity > 1 /\ db.items[i].total_price > 1

\* the step executes a statement of the request of c
StepOf(c) == serq'[c] # serq[c] \/ par'[c] # par[c]

\* the request of c asks to cancel a sale that it read as not completed
CancelsNonCompleted(c) ==
  /\ req[c].op = "status" /\ req[c].status = "cancelada"
  /\ hist[c].saleStatus \in {"pendente", "cancelada"}

\* C12: no statement of a request that cancels a sale it found pending or already
\* cancelled changes an inventory quantity or the movement log
C12_NonCompletedCancelKeepsInventory ==
  [][\A c \in Conns :
       (CancelsNonCompleted(c) /\ StepOf(c)) =>
         db'.inv = db.inv /\ db'.moves = db.moves]_vars

C12_Witness ==
  \E c \in Conns :
    /\ CancelsNonCompleted(c) /\ hist[c].saleStatus = "pendente" /\ resp[c] = 200
    /\ db.sales[req[c].id].status = "cancelada"
    /\ \E p \in Products : db.inv[p][1] < InitStock

\* C13: a cancellation of a completed sale one of whose steps (an inventory
\* restore, the status update) failed leaves the tables, once the request is over,
\* as they were before it: no quantity changed, no movement appended, the sale
\* still completed (stated for a request that ran with no other request beside it)
C13_FailedCancelLeavesNoTrace ==
  \A c \in Conns :
    (req[c].op = "status" /\ hist[c].stepFailed /\ Finished(c) /\ alone[c])
      => Tables(db) = pre[c]

\* the removal of c asked for more than the stock it read
ShortRemoval(c) ==
  /\ req[c].op = "remove"
  /\ hist[c].seen # <<>> /\ hist[c].seen[1] # Null
  /\ hist[c].seen[1][1] < req[c].quantity[1]

\* C14: a remove-stock request that asks for more than the stock is answered with a
\* rejection, issues no statement after its stock lookup, and leaves the inventory
\* quantities and the movement log as they were
C14_ShortRemovalRejected ==
  \A c \in Conns :
    ShortRemoval(c) =>
      /\ resp[c] = 400
      /\ Finished(c) /\ ~inTx[c] /\ writer # c
      /\ alone[c] => Tables(db) = pre[c]

\* stock 1 is left, 2 are asked for
C14_Witness ==
  \E c \in Conns :
    /\ ShortRemoval(c) /\ alone[c] /\ hist[c].seen[1][1] = 1
    /\ db.inv[req[c].product][1] = 1

\* the request of c is a manual adjustment of delta units of its product
Adjusts(c, delta) ==
  \/ req[c].op = "add" /\ delta = req[c].quantity[1]
  \/ req[c].op = "remove" /\ delta = 0 - req[c].quantity[1]

\* C15: every statement of an add-stock or remove-stock request either leaves the
\* inventory quantities and the movement log as they are, or changes the quantity
\* of its product by exactly the requested amount and appends exactly one matching
\* movement ('entrada' for add, 'saida' for remove), both at once
C15_AdjustmentAtomic ==
  [][\A c \in Conns : \A delta \in {0 - q : q \in Qtys} \cup Qtys :
       (Adjusts(c, delta) /\ StepOf(c)) =>
         \/ db'.inv = db.inv /\ db'.moves = db.moves
         \/ /\ req[c].product \in Products
            /\ db'.inv = UpdateStock(db, req[c].product, delta).inv
            /\ db'.moves = Append(db.moves,
                               Movement(req[c].product,
                                        IF delta > 0 THEN "entrada" ELSE "saida",
                                        req[c].quantity[1], 0, "adjustment"))
    ]_vars

\* the movement insert of an adjustment has failed after its UPDATE went through:
\* the quantity is changed inside the transaction, the ROLLBACK is queued
C15_Witness ==
  \E c \in Conns :
    /\ req[c].op \in {"add", "remove"} /\ hist[c].stepFailed /\ resp[c] = 500
    /\ writer = c /\ wdb.inv # db.inv /\ St("rollback", 0) \in par[c]

\* C16: the validation of a sale creation sends at most one rejection, and the line
\* it names is the first line of the request that fails (every line before it passed)
C16_OneRejectionFirstLine ==
  \A c \in Conns :
    req[c].op = "sale" =>
      /\ Len(hist[c].answered) <= 1
      /\ hist[c].answered # <<>> =>
           \A j \in 1..(hist[c].answered[1] - 1) : hist[c].lineOk[j]

\* C17: a request that can run no further statement (its handler has none left, or
\* the server has stopped) has received a response
C17_EveryRequestAnswered ==
  \A c \in Conns :
    (~Idle(c) /\ (Finished(c) \/ crashed)) => resp[c] # 0

\* C18: across every step the movements recorded before it are unchanged: the log
\* only grows at its end
C18_MovementsAppendOnly ==
  [][Extends(db.moves, db'.moves)]_vars

\* the log holds movements of a sale and of its cancellation
C18_Witness ==
  /\ Len(db.moves) >= 2
  /\ \E i, j \in DOMAIN db.moves :
       /\ i < j
       /\ db.moves[i].reference_type = "sale"
       /\ db.moves[j].reference_type = "sale_cancellation"

RECURSIVE SumRestored(_, _, _)
\* the quantity of product p that the cancellations of sale id have logged as added back
SumRestored(rows, p, id) ==
  IF rows = <<>> THEN 0
  ELSE (IF /\ Head(rows).product_id = p /\ Head(rows).reference_id = id
           /\ Head(rows).reference_type = "sale_cancellation"
        THEN Head(rows).quantity ELSE 0)
       + SumRestored(Tail(rows), p, id)

\* C19: whatever status updates a sale goes through, what its cancellations add
\* back never exceeds what the sale removed: for every product the quantity logged
\* as restored for the sale is at most the quantity of its line items, and (the
\* sale and its status updates being the only operations) no quantity exceeds the
\* initial one
C19_RestoredAtMostOnce ==
  /\ \A id \in DOMAIN db.sales : \A p \in Products :
       SumRestored(db.moves, p, id) <= SumQuantity(SelectSeq2(db.items, id), p)
  /\ \A p \in Products : \A r \in DOMAIN db.inv[p] : db.inv[p][r] <= InitStock

\* two status updates that cancel the same sale, both having read it as completed,
\* one of them in flight when the other read
ConcurrentCancels(a, b) ==
  /\ req[a].op = "status" /\ req[b].op = "status"
  /\ req[a].id = req[b].id
  /\ req[a].status = "cancelada" /\ req[b].status = "cancelada"
  /\ hist[a].saleStatus = "concluida" /\ hist[b].saleStatus = "concluida"
  /\ b \in hist[a].rivals \/ a \in hist[b].rivals

\* C20: two concurrent cancellations of one completed sale restore it once: they do
\* not both succeed, and at every moment the quantity logged as restored for the
\* sale is at most the quantity of its line items
C20_ConcurrentCancelsRestoreOnce ==
  \A a \in Conns : \A b \in Others(a) :
    ConcurrentCancels(a, b) =>
      /\ ~(resp[a] = 200 /\ resp[b] = 200)
      /\ \A p \in Products :
           SumRestored(db.moves, p, req[a].id)
             <= SumQuantity(SelectSeq2(db.items, req[a].id), p)

\* what a stock-taking request asks of which product: a removal, or a sale creation
\* of one line
Takes(c) ==
  IF req[c].op = "remove" THEN <<req[c].product, req[c].quantity[1]>>
  ELSE IF req[c].op = "sale" /\ Len(req[c].items) = 1
  THEN <<req[c].items[1].product_id, req[c].items[1].quantity>>
  ELSE <<0, 0>>

Succeeded(c) == (req[c].op = "remove" /\ resp[c] = 200) \/ (req[c].op = "sale" /\ resp[c] = 201)

\* a removal and another removal or single-line sale creation on the same product,
\* in flight together, both having read stock s, with q1 <= s, q2 <= s, q1 + q2 > s
RacingRemoval(a, b) ==
  /\ req[a].op = "remove" /\ req[b].op \in {"remove", "sale"}
  /\ b \in hist[a].rivals \/ a \in hist[b].rivals
  /\ Takes(a)[1] = Takes(b)[1] /\ Takes(a)[1] \in Products
  /\ Len(hist[a].seen) = 1 /\ hist[a].seen = hist[b].seen
  /\ hist[a].seen[1] # Null
  /\ LET s == hist[a].seen[1][1]
     IN Takes(a)[2] <= s /\ Takes(b)[2] <= s /\ Takes(a)[2] + Takes(b)[2] > s

\* C21: of a removal racing another removal or a sale creation on one product, each
\* within the stock and together above it, at most one succeeds, and the quantity
\* of the product never drops below zero
C21_RemovalDoesNotRace ==
  \A a \in Conns : \A b \in Others(a) :
    RacingRemoval(a, b) =>
      /\ ~(Succeeded(a) /\ Succeeded(b))
      /\ \A r \in DOMAIN db.inv[Takes(a)[1]] : db.inv[Takes(a)[1]][r] >= 0

\* C22: no statement of a product update (which sets the price) or of a product
\* delete changes a line item or a sale: every unit_price, total_price and
\* total_amount recorded before it is as it was
C22_PriceChangeKeepsSales ==
  [][\A c \in Conns :
       (req[c].op \in {"update", "delete"} /\ StepOf(c)) =>
         db'.items = db.items /\ db'.sales = db.sales]_vars

\* a line item sold at the old price of a product whose price has since been updated
C22_Witness ==
  \E i \in DOMAIN db.items :
    /\ db.products[db.items[i].product_id].price = NewPrice
    /\ db.items[i].unit_price = Price[db.items[i].product_id]
    /\ db.items[i].total_price = db.items[i].quantity * Price[db.items[i].product_id]

\* the same for a product deleted after the sale
C22_WitnessDeleted ==
  \E i \in DOMAIN db.items :
    /\ ~db.products[db.items[i].product_id].active
    /\ db.items[i].unit_price = Price[db.items[i].product_id]

\* the request that created product p has not yet run its inventory insert
Creating(p) ==
  \E c \in Conns :
    req[c].op = "create" /\ loc[c].productId = p /\ St("insertInventory", 0) \in par[c]

\* C23: every product has exactly one inventory record, from the moment its
\* creation has run its inventory insert
C23_OneInventoryRecord ==
  \A p \in DOMAIN db.products : ~Creating(p) => Len(db.inv[p]) = 1

\* the lookup of line i of the sale creation of c found the product inactive
InactiveLine(c, i) ==
  /\ req[c].op = "sale" /\ i \in DOMAIN hist[c].found
  /\ req[c].items[i].product_id \in Products
  /\ ~hist[c].found[i] /\ hist[c].seen[i] # Null

\* a sale creation that found a product of one of its lines inactive is rejected and
\* writes nothing
InactiveRejected ==
  \A c \in Conns :
    (\E i \in DOMAIN req[c].items : InactiveLine(c, i)) =>
      /\ resp[c] \in {400, 500}
      /\ writer # c
      /\ alone[c] => Tables(db) = pre[c]

\* C24: a product delete changes nothing but the active flag of its product, which
\* is false once the delete has answered success; the inventory records, sales,
\* line items and movements stay as they are; a sale creation that finds a product
\* of one of its lines inactive is rejected and writes nothing, and a sale creation
\* succeeds only with every product of its lines active
C24_SoftDelete ==
  [][/\ \A c \in Conns :
         /\ (req[c].op = "delete" /\ StepOf(c)) =>
              /\ Tables(db') = Tables(db)
              /\ DOMAIN db'.products = DOMAIN db.products
              /\ \A x \in DOMAIN db.products :
                   /\ db'.products[x].price = db.products[x].price
                   /\ x # req[c].product => db'.products[x].active = db.products[x].active
              /\ resp'[c] = 200 => ~db'.products[req[c].product].active
         /\ SaleSucceeds(c) =>
              \A i \in DOMAIN req[c].items : db.products[req[c].items[i].product_id].active
     /\ InactiveRejected'
    ]_vars

\* a sale creation was rejected for a deleted product, whose inventory record is intact
C24_Witness ==
  \E c \in Conns :
    /\ InactiveLine(c, 1) /\ Finished(c) /\ resp[c] = 400
    /\ ~db.products[req[c].items[1].product_id].active
    /\ db.inv[req[c].items[1].product_id] = <<InitStock>>

\* a product deleted after a sale: its line item, movement and inventory record remain
C24_WitnessKept ==
  \E i \in DOMAIN db.items :
    /\ ~db.products[db.items[i].product_id].active
    /\ Len(db.inv[db.items[i].product_id]) = 1
    /\ \E m \in DOMAIN db.moves : db.moves[m].product_id = db.items[i].product_id

\* C25: a sale creation that answers success asked, for every product, for no more
\* in total over its lines than the stock it read for that product
C25_TotalDemandWithinStock ==
  \A c \in Conns :
    (req[c].op = "sale" /\ resp[c] = 201) =>
      \A i \in DOMAIN req[c].items :
        SumQuantity(req[c].items, req[c].items[i].product_id) <= NumberOf(hist[c].seen[i])

\* the lookup of line i of the sale creation of c found the product active and no
\* inventory record joined to it
NoRecordLine(c, i) ==
  /\ req[c].op = "sale" /\ i \in DOMAIN hist[c].found
  /\ hist[c].found[i] /\ hist[c].seen[i] = Null

\* such a request is rejected on that line and holds no write
NoRecordRejected ==
  \A c \in Conns : \A i \in LineIdx :
    NoRecordLine(c, i) =>
      /\ resp[c] \in {400, 500}
      /\ \E k \in DOMAIN hist[c].answered : hist[c].answered[k] = i
      /\ writer # c
      /\ alone[c] => Tables(db) = pre[c]

\* C26: a sale creation with a line for an active product that has no inventory
\* record is rejected on that line, and none of its statements creates a sale, a
\* line item or a movement
C26_NoRecordCountsAsZero ==
  [][/\ NoRecordRejected'
     /\ \A c \in Conns :
          (StepOf(c) /\ \E i \in LineIdx : NoRecordLine(c, i)) =>
            db'.sales = db.sales /\ db'.items = db.items /\ db'.moves = db.moves
    ]_vars

\* the created product has no inventory record and a sale creation asking for it
\* was rejected
C26_Witness ==
  \E c \in Conns :
    /\ NoRecordLine(c, 1) /\ Finished(c) /\ resp[c] = 400 /\ alone[c]
    /\ req[c].items[1].product_id \notin Products
    /\ db.inv[req[c].items[1].product_id] = <<>>
    /\ db.sales = <<>>

RECURSIVE SumAdjusted(_, _, _)
\* the quantity of product p that manual adjustments of the given type have logged
SumAdjusted(rows, p, type) ==
  IF rows = <<>> THEN 0
  ELSE (IF /\ Head(rows).product_id = p /\ Head(rows).movement_type = type
           /\ Head(rows).reference_type = "adjustment"
        THEN Head(rows).quantity ELSE 0)
       + SumAdjusted(Tail(rows), p, type)

RECURSIVE SumSold(_, _, _)
\* the quantity of product p on the line items of the sales that are not cancelled
SumSold(rows, sales, p) ==
  IF rows = <<>> THEN 0
  ELSE (IF /\ Head(rows).product_id = p /\ Head(rows).sale_id \in DOMAIN sales
           /\ sales[Head(rows).sale_id].status # "cancelada"
        THEN Head(rows).quantity ELSE 0)
       + SumSold(Tail(rows), sales, p)

\* C27: in every reachable state, for every product, quantity = initial quantity
\* + added by add-stock - removed by remove-stock - the line-item quantities of
\* the sales that are not cancelled
C27_StockConservation ==
  \A p \in Products : \A r \in DOMAIN db.inv[p] :
    db.inv[p][r] = InitStock + SumAdjusted(db.moves, p, "entrada")
                             - SumAdjusted(db.moves, p, "saida")
                             - SumSold(db.items, db.sales, p)

\* C28: no statement of an inventory-level update that supplies no quantity changes
\* the quantity of an inventory record
C28_LevelUpdateKeepsQuantity ==
  [][\A c \in Conns :
       (req[c].op = "level" /\ req[c].quantity = Null /\ StepOf(c)) =>
         \A p \in DOMAIN db.inv : \A r \in DOMAIN db.inv[p] :
           db'.inv[p][r] = db.inv[p][r]]_vars

\* the step runs the UPDATE of the product update of c, and it goes through
Updates(c) ==
  /\ req[c].op = "update"
  /\ St("getUpdated", 0) \notin par[c] /\ St("getUpdated", 0) \in par'[c]

\* C29: the UPDATE of a product update leaves its product inactive when the
\* request's active field is boolean false and active in every other case (the
\* field left out, or the text "false"), whatever the product was before
C29_UpdateSetsActive ==
  [][\A c \in Conns :
       Updates(c) =>
         db'.products[req[c].product].active = (req[c].active # JSFalse)]_vars

\* a deleted product is active again after an update that left the field out
C29_Witness ==
  \E c \in Conns :
    /\ req[c].op = "update" /\ req[c].active = Undefined /\ resp[c] = 200
    /\ hist[c].found = <<FALSE>>
    /\ db.products[req[c].product].active

\* an update carrying the text "false" leaves the product active
C29_WitnessText ==
  \E c \in Conns :
    /\ req[c].op = "update" /\ req[c].active = StrFalse /\ resp[c] = 200
    /\ db.products[req[c].product].active

\* the request of c is one that runs inside a transaction: a sale creation, a
\* manual adjustment, the cancellation of a sale read as completed
Transactional(c) ==
  \/ req[c].op \in {"sale", "add", "remove"}
  \/ /\ req[c].op = "status" /\ req[c].status = "cancelada"
     /\ hist[c].saleStatus = "concluida"

\* a request that is over has left no transaction open
EndedWhenOver == \A c \in Conns : (Transactional(c) /\ Finished(c)) => ~inTx[c]

\* C30: when a sale creation, cancellation or manual adjustment is over, the
\* transaction it began has been ended by its COMMIT or ROLLBACK, and no statement
\* it executes outside the transaction (before BEGIN, after COMMIT or ROLLBACK)
\* changes the database
C30_TransactionEndedOnce ==
  [][/\ EndedWhenOver'
     /\ \A c \in Conns :
          (Transactional(c) /\ StepOf(c) /\ ~inTx[c] /\ ~inTx'[c]) => db' = db
    ]_vars

\* C1: every inventory quantity is >= 0 in every reachable state
C1_QuantityNonNegative ==
  \A p \in Products : \A r \in DOMAIN db.inv[p] : db.inv[p][r] >= 0

\* C2: a sale creation one of whose steps (sale header, line item, inventory
\* decrement) failed leaves the tables, once the request is over, as they were
\* before it (stated for a request that ran with no other request beside it)
C2_FailedSaleLeavesNoTrace ==
  \A c \in Conns :
    (req[c].op = "sale" /\ hist[c].stepFailed /\ Finished(c) /\ alone[c])
      => Tables(db) = pre[c]

\* two single-line sale creations on one product that were in flight together, both
\* having read stock s, with q1 <= s, q2 <= s and q1 + q2 > s
Racing(a, b) ==
  /\ req[a].op = "sale" /\ req[b].op = "sale"
  /\ b \in hist[a].rivals \/ a \in hist[b].rivals
  /\ Len(req[a].items) = 1 /\ Len(req[b].items) = 1
  /\ req[a].items[1].product_id = req[b].items[1].product_id
  /\ Len(hist[a].seen) = 1 /\ hist[a].seen = hist[b].seen
  /\ hist[a].seen[1] # Null
  /\ LET s == hist[a].seen[1][1]
         q1 == req[a].items[1].quantity
         q2 == req[b].items[1].quantity
     IN q1 <= s /\ q2 <= s /\ q1 + q2 > s

\* C3: of two racing sale creations at most one succeeds, and the stock of the
\* product never drops below zero
C3_NoOversell ==
  \A a \in Conns : \A b \in Others(a) :
    Racing(a, b) =>
      /\ ~(resp[a] = 201 /\ resp[b] = 201)
      /\ \A r \in DOMAIN db.inv[req[a].items[1].product_id] :
           db.inv[req[a].items[1].product_id][r] >= 0

C3_Witness ==
  \E a \in Conns : \E b \in Others(a) :
    Racing(a, b) /\ resp[a] = 201 /\ resp[b] = 500 /\ Finished(a) /\ Finished(b)

CancelSucceeds(c) == req[c].op = "status" /\ inTx[c] /\ resp[c] = 0 /\ resp'[c] = 200

\* C4: cancelling a completed sale undoes what creating it did: the creation takes
\* the quantities of its line items from the inventory, the cancellation gives the
\* quantities of the same line items back, appends one 'entrada' movement per line
\* item with its quantity and the sale's id, and leaves the sale cancelled
C4_CancelInvertsSale ==
  [][\A c \in Conns :
       /\ SaleSucceeds(c) =>
            \A p \in Products : \A r \in DOMAIN db.inv[p] :
              db'.inv[p][r] = db.inv[p][r]
                - SumQuantity(SelectSeq2(db'.items, Len(db'.sales)), p)
       /\ CancelSucceeds(c) =>
            LET items == SelectSeq2(db.items, req[c].id)
                moves == Added(db.moves, db'.moves)
            IN /\ \A p \in Products : \A r \in DOMAIN db.inv[p] :
                    db'.inv[p][r] = db.inv[p][r] + SumQuantity(items, p)
               /\ Extends(db.moves, db'.moves) /\ Len(moves) = Len(items)
               /\ \A i \in DOMAIN items :
                    Count(moves, Movement(items[i].product_id, "entrada",
                                          items[i].quantity, req[c].id,
                                          "sale_cancellation"))
                    = Cardinality({j \in DOMAIN items :
                                     /\ items[j].product_id = items[i].product_id
                                     /\ items[j].quantity = items[i].quantity})
               /\ db'.sales[req[c].id].status = "cancelada"
    ]_vars

\* C5: a sale that is cancelled stays cancelled
C5_CancelledStaysCancelled ==
  [][\A id \in DOMAIN db.sales :
       db.sales[id].status = "cancelada" => db'.sales[id].status = "cancelada"]_vars

\* C6: in every reachable state the quantity of every product is its initial
\* quantity plus the 'entrada' movements minus the 'saida' movements logged for it
C6_BalanceMatchesMovements ==
  \A p \in Products : \A r \in DOMAIN db.inv[p] :
    db.inv[p][r] = InitStock + SumMoves(db.moves, p, "entrada")
                             - SumMoves(db.moves, p, "saida")

\* C7: a sale creation that answers success has persisted one header, one line
\* item per requested line, each product's quantity less the quantity requested
\* of it, and one 'saida' movement per line with its quantity and the sale's id
C7_SaleEffect ==
  [][\A c \in Conns :
       SaleSucceeds(c) =>
         LET id == Len(db.sales) + 1
             lines == req[c].items
             items == Added(db.items, db'.items)
             moves == Added(db.moves, db'.moves)
         IN /\ Len(db'.sales) = id /\ Extends(db.sales, db'.sales)
            /\ Extends(db.items, db'.items) /\ Len(items) = Len(lines)
            /\ Extends(db.moves, db'.moves) /\ Len(moves) = Len(lines)
            /\ \A i \in DOMAIN lines :
                 /\ Cardinality({j \in DOMAIN items :
                        /\ items[j].sale_id = id
                        /\ items[j].product_id = lines[i].product_id
                        /\ items[j].quantity = lines[i].quantity})
                    = Count(lines, lines[i])
                 /\ Count(moves, Movement(lines[i].product_id, "saida",
                                          lines[i].quantity, id, "sale"))
                    = Count(lines, lines[i])
            /\ \A p \in Products : \A r \in DOMAIN db.inv[p] :
                 db'.inv[p][r] = db.inv[p][r] - SumQuantity(lines, p)
    ]_vars

\* C8: a sale creation that answers success found, for every line, the product
\* active with an inventory quantity of at least the quantity requested
C8_SuccessOnlyIfEveryLineOk ==
  \A c \in Conns :
    (req[c].op = "sale" /\ resp[c] = 201) =>
      /\ Len(hist[c].lineOk) = Len(req[c].items)
      /\ \A i \in DOMAIN hist[c].lineOk : hist[c].lineOk[i]

C8_Witness ==
  \E c \in Conns :
    /\ req[c].op = "sale" /\ resp[c] = 201 /\ Len(req[c].items) = 2
    /\ db.inv[1][1] < InitStock

\* a line of the request of c asked for more than the stock read for it
ShortLine(c, i) ==
  /\ i \in DOMAIN hist[c].seen
  /\ hist[c].found[i]
  /\ NumberOf(hist[c].seen[i]) < req[c].items[i].quantity

\* C9: a sale creation with a line that asks for more than the stock is answered
\* with a rejection and writes nothing, wherever the line stands in the request
C9_ShortLineRejected ==
  \A c \in Conns :
    (req[c].op = "sale" /\ \E i \in DOMAIN req[c].items : ShortLine(c, i)) =>
      /\ resp[c] \in {400, 500}
      /\ writer # c
      /\ alone[c] => Tables(db) = pre[c]

\* the short line stands first (second) among two lines, the other line is fine
C9_Witness ==
  /\ \E c \in Conns :
       /\ Len(req[c].items) = 2 /\ ShortLine(c, 1) /\ Len(hist[c].seen) = 2
       /\ ~ShortLine(c, 2) /\ Finished(c) /\ alone[c]

C9_WitnessLast ==
  /\ \E c \in Conns :
       /\ Len(req[c].items) = 2 /\ ShortLine(c, 2) /\ ~ShortLine(c, 1)
       /\ Finished(c) /\ alone[c]

\* C10: every persisted sale has total_amount = sum of its items' total_price
\* - discount + tax
C10_TotalAmount ==
  \A id \in DOMAIN db.sales :
    db.sales[id].total_amount
      = SumTotalPrice(db.items, id) - db.sales[id].discount + db.sales[id].tax

====
